---- MODULE Spec2Model ----
(***************************************************************************)
(* Model of invoicer.py: invoice numbering from the output directory and   *)
(* the composition and writing of the invoice document.                    *)
(*                                                                         *)
(* Strings that the program inspects character by character (file names,   *)
(* customer names, currency codes) are sequences of one-character strings. *)
(* Amounts (float in the source) are integers, which floats represent      *)
(* exactly.                                                                *)
(* exactly.                                                                *)
(*                                                                         *)
(* Left out, as nothing modelled reads them: the address, business number  *)
(* and date fields, the item descriptions and their wrapping, the table    *)
(* styles, the debug lines printed by get_next_invoice_number, and the     *)
(* existence tests of the settings file, template file and output          *)
(* directory (all are taken to exist).                                     *)
(***************************************************************************)
EXTENDS Integers, Sequences, FiniteSets, TLC

VARIABLES dir, templates, budget, pc, template, invoice, scanned, trace,
          elements, built, written

vars == <<dir, templates, budget, pc, template, invoice, scanned, trace,
          elements, built, written>>

(* ---------------------------- bounds ----------------------------------- *)

MaxRuns == 1
MaxSeqRuns == 4
MaxRaceRuns == 2
MaxItems == 2

\* the invocations in progress at the same time: one shell, or two
OneProc == {1}
TwoProcs == {1, 2}

(* ------------------------ python str helpers --------------------------- *)

Digits == <<"0", "1", "2", "3", "4", "5", "6", "7", "8", "9">>

UpperCase == <<"A", "B", "C", "D", "E", "F", "G", "H", "I", "J", "K", "L", "M",
               "N", "O", "P", "Q", "R", "S", "T", "U", "V", "W", "X", "Y", "Z">>

LowerCase == <<"a", "b", "c", "d", "e", "f", "g", "h", "i", "j", "k", "l", "m",
               "n", "o", "p", "q", "r", "s", "t", "u", "v", "w", "x", "y", "z">>

RECURSIVE StrNat(_)
StrNat(n) ==
    IF n < 10 THEN <<Digits[n + 1]>>
    ELSE StrNat(n \div 10) \o <<Digits[(n % 10) + 1]>>

\* str(int)
Str(n) == IF n < 0 THEN <<"-">> \o StrNat(0 - n) ELSE StrNat(n)

DigitValue(c) == CHOOSE d \in 0..9 : Digits[d + 1] = c

\* str.isdigit() on the ASCII alphabet of the model
IsDigit(s) == Len(s) > 0 /\ \A i \in 1..Len(s) : \E d \in 1..10 : Digits[d] = s[i]

RECURSIVE IntOf(_)
\* int(s) for an all-digit s (leading zeros allowed)
IntOf(s) ==
    IF Len(s) = 1 THEN DigitValue(s[1])
    ELSE 10 * IntOf(SubSeq(s, 1, Len(s) - 1)) + DigitValue(s[Len(s)])

\* str.startswith
StartsWith(s, prefix) ==
    Len(prefix) <= Len(s) /\ SubSeq(s, 1, Len(prefix)) = prefix

\* str.endswith
EndsWith(s, suffix) ==
    Len(suffix) <= Len(s) /\ SubSeq(s, Len(s) - Len(suffix) + 1, Len(s)) = suffix

\* s.split("_")[0]
SplitFirst(s) ==
    IF \E i \in 1..Len(s) : s[i] = "_"
    THEN LET k == CHOOSE i \in 1..Len(s) :
                      s[i] = "_" /\ \A j \in 1..(i - 1) : s[j] # "_"
         IN SubSeq(s, 1, k - 1)
    ELSE s

LowerChar(c) ==
    IF \E i \in 1..26 : UpperCase[i] = c
    THEN LowerCase[CHOOSE i \in 1..26 : UpperCase[i] = c]
    ELSE c

\* str.lower()
Lower(s) == [i \in 1..Len(s) |-> LowerChar(s[i])]

\* s.replace(" ", "_")
ReplaceSpaces(s) == [i \in 1..Len(s) |-> IF s[i] = " " THEN "_" ELSE s[i]]

PdfExt == <<".", "p", "d", "f">>

(* --------------------------- settings ---------------------------------- *)

\* settings.invoice_header / invoice_footer / payment_instructions as loaded
\* from the settings file (keys are lower-case currency codes)
InvoiceHeader == <<"Studio Rossi", "Via Roma 1">>

InvoiceFooter == <<"Thank you">>

PaymentInstructions ==
    (<<"e", "u", "r">> :> "IT00 0000 0000 0000 0000 00") @@
    (<<"c", "h", "f">> :> "CH00 0000 0000 0000 0000 0")

(* ------------------------ template inputs ------------------------------ *)

Numbers == {-1, 0, 1, 10}

Names == {<<"A", " ", "B">>, <<"x">>}

Currencies == {<<"E", "U", "R">>, <<"U", "S", "D">>}

\* the i-th line of a template: 2 x 100, 3 x 50, 4 x 33, ...
ItemAt(i) == [quantity |-> i + 1, unit_price |-> 100 \div i]

\* the item lists of the templates: the first n lines, for each n up to MaxItems
ItemSeqs == {[i \in 1..n |-> ItemAt(i)] : n \in 0..MaxItems}

Totals == {0, 200}

\* every template file the operator may pass on the command line
Templates ==
    [customer_name : Names, invoice_number : Numbers, invoice_currency : Currencies,
     invoice_items : ItemSeqs, invoice_total_price : Totals]

\* templates that differ only in what numbering and naming depend on
NumberingTemplates ==
    {t \in Templates : /\ t.invoice_items = <<ItemAt(1)>>
                       /\ t.invoice_total_price = 0}

NoTemplate ==
    [customer_name |-> <<>>, invoice_number |-> 0, invoice_currency |-> <<>>,
     invoice_items |-> <<>>, invoice_total_price |-> 0]

\* files found in the output directory that this program did not write
ForeignFiles ==
    { <<"1", "0", "_", "x">> \o PdfExt,
      <<"0", "7", "_", "b">> \o PdfExt,
      <<"1", "_", "x", ".", "t", "x", "t">>,
      <<"1">> \o PdfExt }

(* ------------------------- numbering ----------------------------------- *)

RECURSIVE Listings(_)
\* every order in which os.listdir may return the entries of a directory
Listings(S) ==
    IF S = {} THEN {<<>>}
    ELSE UNION {{<<f>> \o l : l \in Listings(S \ {f})} : f \in S}

\* variant: only .pdf entries are tested
DuplicateFoundPdfOnly(listing, invoice_number) ==
    \E i \in 1..Len(listing) :
        EndsWith(listing[i], PdfExt) /\ StartsWith(listing[i], Str(invoice_number))

\* variant: the leading token must equal str(invoice_number)
DuplicateFoundExactToken(listing, invoice_number) ==
    \E i \in 1..Len(listing) : SplitFirst(listing[i]) = Str(invoice_number)

\* variant: the whole file name must equal str(invoice_number)
DuplicateFoundWholeName(listing, invoice_number) ==
    \E i \in 1..Len(listing) : listing[i] = Str(invoice_number)

\* Invoice.__init__: some listed file starts with str(invoice_number)
DuplicateFound(listing, invoice_number) ==
    \E i \in 1..Len(listing) : StartsWith(listing[i], Str(invoice_number))

RECURSIVE ScanFromNoCompare(_, _, _)
ScanFromNoCompare(listing, i, invoice_number) ==
    IF i > Len(listing) THEN invoice_number
    ELSE LET file == listing[i]
         IN IF EndsWith(file, PdfExt) /\ IsDigit(SplitFirst(file))
            THEN ScanFromNoCompare(listing, i + 1, IntOf(SplitFirst(file)) + 1)
            ELSE ScanFromNoCompare(listing, i + 1, invoice_number)

\* variant: the number after the last listed artifact, whatever came before
get_next_invoice_number_last(listing) == ScanFromNoCompare(listing, 1, 1)

RECURSIVE ScanFromNoIncrement(_, _, _)
ScanFromNoIncrement(listing, i, invoice_number) ==
    IF i > Len(listing) THEN invoice_number
    ELSE LET file == listing[i]
         IN IF EndsWith(file, PdfExt) /\ IsDigit(SplitFirst(file))
                /\ IntOf(SplitFirst(file)) >= invoice_number
            THEN ScanFromNoIncrement(listing, i + 1, IntOf(SplitFirst(file)))
            ELSE ScanFromNoIncrement(listing, i + 1, invoice_number)

\* variant: the largest listed number itself, not the one after it
get_next_invoice_number_max(listing) == ScanFromNoIncrement(listing, 1, 1)

RECURSIVE ScanFrom(_, _, _)
\* the loop of get_next_invoice_number from position i with the running value
ScanFrom(listing, i, invoice_number) ==
    IF i > Len(listing) THEN invoice_number
    ELSE LET file == listing[i]
         IN IF EndsWith(file, PdfExt) /\ IsDigit(SplitFirst(file))
            THEN LET file_invoice_number == IntOf(SplitFirst(file))
                 IN IF file_invoice_number >= invoice_number
                    THEN ScanFrom(listing, i + 1, file_invoice_number + 1)
                    ELSE ScanFrom(listing, i + 1, invoice_number)
            ELSE ScanFrom(listing, i + 1, invoice_number)

get_next_invoice_number(listing) == ScanFrom(listing, 1, 1)

(* ------------------------- composition --------------------------------- *)

RECURSIVE TotalFrom(_, _, _)
TotalFrom(items, i, total_price) ==
    IF i > Len(items) THEN total_price
    ELSE TotalFrom(items, i + 1, total_price + items[i].unit_price * items[i].quantity)

\* variant: a supplied invoice_total_price is trusted
calculate_total_price_stored(inv) ==
    IF inv.invoice_total_price # 0 THEN inv.invoice_total_price
    ELSE TotalFrom(inv.invoice_items, 1, 0)

calculate_total_price(inv) == TotalFrom(inv.invoice_items, 1, 0)

\* variant: the customer name is left out of the file name
PdfFileNameNumberOnly(inv) == Str(inv.invoice_number) \o <<"_">> \o PdfExt

\* output_pdf: the file name inside the output directory
PdfFileName(inv) ==
    Str(inv.invoice_number) \o <<"_">> \o Lower(ReplaceSpaces(inv.customer_name)) \o PdfExt

Spacer(h) == <<"Spacer", h>>

Table(rows) == <<"Table", rows>>

\* output_pdf: rows of the line-items table
ItemsData(inv) ==
    <<  <<"Description", "Quantity", "Unit Price", "Total Price">>  >>
    \o [i \in 1..Len(inv.invoice_items) |->
          <<"", inv.invoice_items[i].quantity, inv.invoice_items[i].unit_price,
            inv.invoice_items[i].unit_price * inv.invoice_items[i].quantity>>]
    \o <<  << <<"Tot", inv.invoice_currency>>, "", "",
              <<calculate_total_price(inv), inv.invoice_currency>> >>  >>

\* output_pdf: the elements appended before the payment instructions lookup
ElementsBeforePayment(inv) ==
    << Table(<< <<InvoiceHeader, <<inv.customer_name>> >> >>),
       Spacer(24),
       Table(<< <<"Invoice Number:", inv.invoice_number>> >>),
       Spacer(24),
       Table(ItemsData(inv)),
       Spacer(12) >>

\* output_pdf: the elements appended from the payment table on
ElementsFromPayment(inv) ==
    << Table(<< <<PaymentInstructions[Lower(inv.invoice_currency)]>> >>),
       Spacer(12),
       Table([i \in 1..Len(InvoiceFooter) |-> <<InvoiceFooter[i]>>]) >>

\* the key lookup settings.payment_instructions[invoice.invoice_currency.lower()] succeeds
HasPaymentInstructions(inv) == Lower(inv.invoice_currency) \in DOMAIN PaymentInstructions

(* ----------------------------- state ----------------------------------- *)

Procs == DOMAIN pc

Idle == [p \in Procs |-> "idle"]

InitProcs(P) ==
    /\ pc = [p \in P |-> "idle"]
    /\ template = [p \in P |-> NoTemplate]
    /\ invoice = [p \in P |-> NoTemplate]
    /\ scanned = [p \in P |-> {}]
    /\ trace = [p \in P |-> <<>>]
    /\ elements = [p \in P |-> <<>>]
    /\ built = [p \in P |-> <<>>]
    /\ written = [p \in P |-> {}]

\* invocations run one at a time on an output directory with any content
Init ==
    /\ dir \in SUBSET ForeignFiles
    /\ templates = Templates
    /\ budget = MaxRuns
    /\ InitProcs(OneProc)

\* invocations run one at a time, starting from an empty output directory
InitSeq ==
    /\ dir = {}
    /\ templates = NumberingTemplates
    /\ budget = MaxSeqRuns
    /\ InitProcs(OneProc)

\* invocations launched concurrently, starting from an empty output directory
InitRace ==
    /\ dir = {}
    /\ templates = NumberingTemplates
    /\ budget = MaxRaceRuns
    /\ InitProcs(TwoProcs)

(* ---------------------------- actions ---------------------------------- *)

\* main / read_template up to yaml.safe_load: the template record is read
LoadTemplate(p) ==
    /\ pc[p] = "idle"
    /\ budget > 0
    /\ \E t \in templates :
          template' = [template EXCEPT ![p] = t]
    /\ budget' = budget - 1
    /\ pc' = [pc EXCEPT ![p] = "loaded"]
    /\ UNCHANGED <<dir, templates, invoice, scanned, trace, elements, built, written>>

\* variant: the error is printed but the process does not exit
ConstructDuplicateNoExit(p) ==
    /\ pc[p] = "loaded"
    /\ template[p].invoice_number # 0
    /\ \E listing \in Listings(dir) :
          /\ DuplicateFound(listing, template[p].invoice_number)
          /\ scanned' = [scanned EXCEPT ![p] = dir]
    /\ invoice' = [invoice EXCEPT ![p] = template[p]]
    /\ trace' = [trace EXCEPT ![p] = Append(@, "resolve")]
    /\ pc' = [pc EXCEPT ![p] = "constructed"]
    /\ UNCHANGED <<dir, templates, budget, template, elements, built, written>>

\* Invoice.__init__ with a requested number that some listed file starts with:
\* the error is printed and the process exits
ConstructDuplicate(p) ==
    /\ pc[p] = "loaded"
    /\ template[p].invoice_number # 0
    /\ \E listing \in Listings(dir) :
          /\ DuplicateFound(listing, template[p].invoice_number)
          /\ scanned' = [scanned EXCEPT ![p] = dir]
    /\ invoice' = [invoice EXCEPT ![p] = template[p]]
    /\ trace' = [trace EXCEPT ![p] = Append(@, "resolve")]
    /\ pc' = [pc EXCEPT ![p] = "duplicate"]
    /\ UNCHANGED <<dir, templates, budget, template, elements, built, written>>

\* Invoice.__init__ otherwise: the requested number is kept, or the next number
\* is taken from the directory listing when none was requested
Construct(p) ==
    /\ pc[p] = "loaded"
    /\ \E listing \in Listings(dir) :
          /\ ~ (template[p].invoice_number # 0
                  /\ DuplicateFound(listing, template[p].invoice_number))
          /\ invoice' = [invoice EXCEPT ![p] =
                 [template[p] EXCEPT !.invoice_number =
                     IF template[p].invoice_number = 0
                     THEN get_next_invoice_number(listing)
                     ELSE template[p].invoice_number]]
          /\ scanned' = [scanned EXCEPT ![p] = dir]
    /\ trace' = [trace EXCEPT ![p] = Append(@, "resolve")]
    /\ pc' = [pc EXCEPT ![p] = "constructed"]
    /\ UNCHANGED <<dir, templates, budget, template, elements, built, written>>

\* print_invoice: the summary goes to standard output
PrintInvoice(p) ==
    /\ pc[p] = "constructed"
    /\ trace' = [trace EXCEPT ![p] = Append(@, "summary")]
    /\ pc' = [pc EXCEPT ![p] = "printed"]
    /\ UNCHANGED <<dir, templates, budget, template, invoice, scanned, elements, built, written>>

\* output_pdf when the currency has payment instructions: all elements are
\* built and doc.build writes the file
OutputPdf(p) ==
    /\ pc[p] = "printed"
    /\ HasPaymentInstructions(invoice[p])
    /\ LET all == ElementsBeforePayment(invoice[p]) \o ElementsFromPayment(invoice[p])
       IN /\ elements' = [elements EXCEPT ![p] = all]
          /\ built' = [built EXCEPT ![p] = all]
    /\ dir' = dir \cup {PdfFileName(invoice[p])}
    /\ written' = [written EXCEPT ![p] = @ \cup {PdfFileName(invoice[p])}]
    /\ trace' = [trace EXCEPT ![p] = @ \o <<"compose", "write">>]
    /\ pc' = [pc EXCEPT ![p] = "done"]
    /\ UNCHANGED <<templates, budget, template, invoice, scanned>>

\* variant: the file is created before the payment instructions lookup
OutputPdfUnknownCurrencyWrites(p) ==
    /\ pc[p] = "printed"
    /\ ~ HasPaymentInstructions(invoice[p])
    /\ elements' = [elements EXCEPT ![p] = ElementsBeforePayment(invoice[p])]
    /\ dir' = dir \cup {PdfFileName(invoice[p])}
    /\ written' = [written EXCEPT ![p] = @ \cup {PdfFileName(invoice[p])}]
    /\ trace' = [trace EXCEPT ![p] = Append(@, "compose")]
    /\ pc' = [pc EXCEPT ![p] = "unknown_currency"]
    /\ UNCHANGED <<templates, budget, template, invoice, scanned, built>>

\* output_pdf when the payment instructions lookup raises KeyError: the elements
\* built so far are dropped with the process, doc.build is not reached
OutputPdfUnknownCurrency(p) ==
    /\ pc[p] = "printed"
    /\ ~ HasPaymentInstructions(invoice[p])
    /\ elements' = [elements EXCEPT ![p] = ElementsBeforePayment(invoice[p])]
    /\ trace' = [trace EXCEPT ![p] = Append(@, "compose")]
    /\ pc' = [pc EXCEPT ![p] = "unknown_currency"]
    /\ UNCHANGED <<dir, templates, budget, template, invoice, scanned, built, written>>

\* the process ends (sys.exit(1), the uncaught KeyError, or the return of main)
Exit(p) ==
    /\ pc[p] \in {"duplicate", "unknown_currency", "done"}
    /\ pc' = [pc EXCEPT ![p] = "idle"]
    /\ template' = [template EXCEPT ![p] = NoTemplate]
    /\ invoice' = [invoice EXCEPT ![p] = NoTemplate]
    /\ scanned' = [scanned EXCEPT ![p] = {}]
    /\ trace' = [trace EXCEPT ![p] = <<>>]
    /\ elements' = [elements EXCEPT ![p] = <<>>]
    /\ built' = [built EXCEPT ![p] = <<>>]
    /\ written' = [written EXCEPT ![p] = {}]
    /\ UNCHANGED <<dir, templates, budget>>

Step(p) ==
    \/ ConstructDuplicate(p)
    \/ Construct(p)
    \/ PrintInvoice(p)
    \/ OutputPdf(p)
    \/ OutputPdfUnknownCurrency(p)
    \/ Exit(p)

\* one invocation at a time: a run starts only when no other run is in progress
Next ==
    \E p \in Procs :
        \/ (pc = Idle /\ LoadTemplate(p))
        \/ Step(p)

\* concurrent invocations: a run may start while another is in progress
NextRace ==
    \E p \in Procs :
        \/ LoadTemplate(p)
        \/ Step(p)

Spec == Init /\ [][Next]_vars

SpecSeq == InitSeq /\ [][Next]_vars

SpecRace == InitRace /\ [][NextRace]_vars

(* ------------------------ notions of the claims ------------------------ *)

\* the run of p has been through Invoice.__init__ and got a number
Resolved(p) == pc[p] \in {"constructed", "printed", "done", "unknown_currency"}

\* the run of p has been through Invoice.__init__, whatever the outcome
Attempted(p) == Resolved(p) \/ pc[p] = "duplicate"

\* an issued-artifact file name: a .pdf entry whose text before the first "_" is all digits
IsArtifact(f) == EndsWith(f, PdfExt) /\ IsDigit(SplitFirst(f))

LeadingNumbers(S) == {IntOf(SplitFirst(f)) : f \in {g \in S : IsArtifact(g)}}

MaxOf(S) == IF S = {} THEN 0 ELSE CHOOSE m \in S : \A x \in S : x <= m

\* f begins with the decimal representation of n
BeginsWithDecimal(f, n) ==
    LET d == Str(n) IN Len(f) >= Len(d) /\ \A i \in 1..Len(d) : f[i] = d[i]

\* the leading token of f is the decimal representation of n
TokenIs(f, n) == SplitFirst(f) = Str(n)

\* the invoice number in the name of a file written by the program
InvoiceNumberOf(f) ==
    LET t == SplitFirst(f)
    IN IF t[1] = "-" THEN 0 - IntOf(Tail(t)) ELSE IntOf(t)

RECURSIVE SumLineTotals(_)
SumLineTotals(items) ==
    IF items = <<>> THEN 0
    ELSE Head(items).quantity * Head(items).unit_price + SumLineTotals(Tail(items))

\* the number shown in the last row of the line-items table handed to the renderer
ShownTotal(blocks) ==
    LET rows == blocks[5][2] IN rows[Len(rows)][4][1]

StepOrder == <<"resolve", "summary", "compose", "write">>

(* ------------------------------ claims --------------------------------- *)

\* C1: when no number is requested, the resolved number is 1 + the largest
\* leading number among the artifacts of the listed directory (1 when there is
\* none), whatever the order of the listing.
C1_NextIsMaxPlusOne ==
    \A p \in Procs :
        (Resolved(p) /\ template[p].invoice_number = 0)
            => invoice[p].invoice_number = 1 + MaxOf(LeadingNumbers(scanned[p]))

C1_Witness ==
    \E p \in Procs :
        /\ Resolved(p)
        /\ template[p].invoice_number = 0
        /\ scanned[p] = ForeignFiles
        /\ LeadingNumbers(scanned[p]) = {7, 10}
        /\ invoice[p].invoice_number = 11

\* C2: a requested non-zero number n is refused with the duplicate error when
\* the directory holds a file whose leading token is n.
C2_PresentTokenRejected ==
    \A p \in Procs :
        (Attempted(p) /\ template[p].invoice_number # 0
            /\ \E f \in scanned[p] : TokenIs(f, template[p].invoice_number))
            => pc[p] = "duplicate"

C2_Witness ==
    \E p \in Procs :
        /\ pc[p] = "duplicate"
        /\ template[p].invoice_number = 1
        /\ scanned[p] = {<<"1", "_", "x", ".", "t", "x", "t">>}

\* C3: a requested non-zero number n that is the leading token of no file in
\* the directory is accepted and returned unchanged.
C3_AbsentTokenAccepted ==
    \A p \in Procs :
        (Attempted(p) /\ template[p].invoice_number # 0
            /\ ~ \E f \in scanned[p] : TokenIs(f, template[p].invoice_number))
            => /\ pc[p] # "duplicate"
               /\ invoice[p].invoice_number = template[p].invoice_number

\* C4: with invocations run one at a time from an empty directory, no two
\* files of the directory carry the same invoice number.
C4_NoSharedNumber ==
    \A f, g \in dir : f # g => InvoiceNumberOf(f) # InvoiceNumberOf(g)

C4_Witness ==
    /\ Cardinality(dir) >= 3
    /\ \E p \in Procs : pc[p] = "duplicate" /\ template[p].invoice_number = 1

\* C5: a run that ends with the duplicate error or with the unknown currency
\* error leaves the directory as it found it and hands nothing to the renderer.
C5_FailureWritesNothing ==
    \A p \in Procs :
        pc[p] \in {"duplicate", "unknown_currency"}
            => /\ dir = scanned[p]
               /\ written[p] = {}
               /\ built[p] = <<>>

C5_Witness ==
    \E p \in Procs :
        /\ pc[p] = "unknown_currency"
        /\ Len(elements[p]) = 6
        /\ dir # {}

\* C6: the total of the last row of the line-items table is the sum of
\* quantity * unit_price over the items, whatever invoice_total_price says.
C6_TotalRecomputed ==
    \A p \in Procs :
        pc[p] = "done" => ShownTotal(built[p]) = SumLineTotals(template[p].invoice_items)

C6_Witness ==
    \E p \in Procs :
        /\ pc[p] = "done"
        /\ Len(template[p].invoice_items) = 2
        /\ template[p].invoice_total_price = 200
        /\ ShownTotal(built[p]) = 350

\* C7: two concurrent runs without a requested number that listed the same
\* directory get the same number, and once both have written under different
\* customer names the directory holds two files with that number.
C7_RaceSharesNumber ==
    \A p, q \in Procs :
        (/\ p # q
         /\ Resolved(p) /\ Resolved(q)
         /\ template[p].invoice_number = 0 /\ template[q].invoice_number = 0
         /\ scanned[p] = scanned[q])
        => /\ invoice[p].invoice_number = invoice[q].invoice_number
           /\ (/\ pc[p] = "done" /\ pc[q] = "done"
               /\ invoice[p].customer_name # invoice[q].customer_name)
              => \E f \in written[p], g \in written[q] :
                    /\ f # g
                    /\ {f, g} \subseteq dir
                    /\ InvoiceNumberOf(f) = InvoiceNumberOf(g)

C7_Witness ==
    \E p, q \in Procs :
        /\ p # q
        /\ pc[p] = "done" /\ pc[q] = "done"
        /\ template[p].invoice_number = 0 /\ template[q].invoice_number = 0
        /\ scanned[p] = scanned[q]
        /\ \E f, g \in dir : f # g /\ InvoiceNumberOf(f) = InvoiceNumberOf(g)

\* C8: a run resolves its number first, then prints the summary, then builds
\* the blocks, then writes; a run refused for a duplicate number does nothing
\* after the resolution.
C8_ResolutionFirst ==
    \A p \in Procs :
        /\ Len(trace[p]) <= Len(StepOrder)
        /\ trace[p] = SubSeq(StepOrder, 1, Len(trace[p]))
        /\ (Attempted(p) /\ template[p].invoice_number # 0
              /\ \E f \in scanned[p] : BeginsWithDecimal(f, template[p].invoice_number))
           => /\ trace[p] = <<"resolve">>
              /\ elements[p] = <<>>
              /\ built[p] = <<>>
              /\ written[p] = {}

C8_Witness ==
    \E p \in Procs :
        /\ pc[p] = "duplicate"
        /\ trace[p] = <<"resolve">>
        /\ template[p].invoice_number = 10

\* C9: a requested non-zero number n is refused exactly when some entry of the
\* directory, of any extension, begins with the decimal representation of n.
C9_PrefixTest ==
    \A p \in Procs :
        (Attempted(p) /\ template[p].invoice_number # 0)
            => (pc[p] = "duplicate"
                  <=> \E f \in scanned[p] : BeginsWithDecimal(f, template[p].invoice_number))

C9_Witness ==
    \E p \in Procs :
        /\ pc[p] = "duplicate"
        /\ template[p].invoice_number = 1
        /\ scanned[p] = {<<"1", "0", "_", "x">> \o PdfExt}

\* C10 as stated: for any content of the directory, no entry begins with the
\* number that is assigned when none is requested.
C10_AutoPassesCheck ==
    \A p \in Procs :
        (Resolved(p) /\ template[p].invoice_number = 0)
            => ~ \E f \in scanned[p] : BeginsWithDecimal(f, invoice[p].invoice_number)

\* C10 amended: when every entry of the directory is an issued artifact (a .pdf
\* entry whose text before the first "_" is all digits), no entry begins with
\* the number that is assigned when none is requested.
C10_AutoPassesCheckOnArtifacts ==
    \A p \in Procs :
        (Resolved(p) /\ template[p].invoice_number = 0
            /\ \A f \in scanned[p] : IsArtifact(f))
            => ~ \E f \in scanned[p] : BeginsWithDecimal(f, invoice[p].invoice_number)

C10_Witness ==
    \E p \in Procs :
        /\ Resolved(p)
        /\ template[p].invoice_number = 0
        /\ scanned[p] = {<<"1", "0", "_", "x">> \o PdfExt, <<"0", "7", "_", "b">> \o PdfExt}
        /\ invoice[p].invoice_number = 11

====
